---- MODULE Spec2Model ----
(***************************************************************************)
(* Model of crates/binstalk/src/ops/resolve.rs: resolve, resolve_inner,    *)
(* download_extract_and_verify and collect_bin_files.                      *)
(*                                                                         *)
(* One resolution is one run of the state machine.  The resolution future  *)
(* is a single task, so everything between two `.await`s is one atomic     *)
(* step; the probe tasks spawned at line 220 run on their own and finish   *)
(* at any time, in any order.  Option<T> is the sequence <<>> (None) or    *)
(* <<x>> (Some(x)); strings that the code parses are character sequences.  *)
(***************************************************************************)
EXTENDS Integers, Sequences, FiniteSets, TLC

VARIABLES
    crate_name,       \* argument: [name, version_req : Option<VersionReq>]
    opts,             \* argument: [version_req, manifest_path, cli_overrides]
    curr_version,     \* argument: Option<Version>
    pc,               \* position of the resolve future
    version_req,      \* local of resolve_inner (line 129)
    manifest,         \* local: Option<Manifest> (line 139)
    package,          \* local: Option<Package> (line 152)
    binaries,         \* local: Vec<Product> after retain (line 181)
    desired_targets,  \* local (line 188)
    handles,          \* local: Vec<(Arc<dyn Fetcher>, AutoAbortJoinHandle)>
    tasks,            \* state of the probe task behind each handle
    i,                \* index of the handle the for loop of line 225 is at
    bin_path,         \* local of the loop body (line 229)
    unpacked,         \* the directory the last download unpacked, its files
    joined,           \* handles whose result was awaited, in order
    invoked,          \* handles download_extract_and_verify ran for, in order
    log,              \* the warn! lines of the scan loop
    net,              \* network accesses made so far
    printed,          \* Resolution::print has run
    result            \* what resolve returned

vars == <<crate_name, opts, curr_version, pc, version_req, manifest, package,
          binaries, desired_targets, handles, tasks, i, bin_path, unpacked,
          joined, invoked, log, net, printed, result>>

----------------------------------------------------------------------------
(* Bounds of the model *)

\* most desired targets of one resolution
MaxTargets == 1
None == <<>>
Some(x) == <<x>>
IsSome(o) == Len(o) = 1
Unwrap(o) == o[1]

----------------------------------------------------------------------------
(* semver::Version::parse, for versions of the form major.minor.patch *)

Digit == {"0", "1", "2", "3"}

DigitVal(c) == CASE c = "0" -> 0 [] c = "1" -> 1 [] c = "2" -> 2 [] c = "3" -> 3

RECURSIVE DigitsEnd(_, _)
DigitsEnd(s, p) ==
    IF p <= Len(s) /\ s[p] \in Digit THEN DigitsEnd(s, p + 1) ELSE p

RECURSIVE NumVal(_, _, _)
NumVal(s, p, q) ==
    IF q <= p THEN 0 ELSE NumVal(s, p, q - 1) * 10 + DigitVal(s[q - 1])

\* a numeric identifier starting at p: digits, no leading zero
numeric_identifier(s, p) ==
    LET q == DigitsEnd(s, p) IN
    IF q = p
    THEN [ok |-> FALSE, val |-> 0, next |-> p,
          err |-> IF p > Len(s) THEN "UnexpectedEnd" ELSE "UnexpectedChar"]
    ELSE IF q - p > 1 /\ s[p] = "0"
    THEN [ok |-> FALSE, val |-> 0, next |-> p, err |-> "LeadingZero"]
    ELSE [ok |-> TRUE, val |-> NumVal(s, p, q), next |-> q, err |-> ""]

\* the '.' expected at p
dot(s, p) ==
    IF p > Len(s) THEN [ok |-> FALSE, next |-> p, err |-> "UnexpectedEnd"]
    ELSE IF s[p] = "." THEN [ok |-> TRUE, next |-> p + 1, err |-> ""]
    ELSE [ok |-> FALSE, next |-> p, err |-> "UnexpectedChar"]

VersionErr(e) == [ok |-> FALSE, v |-> <<0, 0, 0>>, err |-> e]

Version_parse(s) ==
    LET major == numeric_identifier(s, 1) IN
    IF ~major.ok THEN VersionErr(major.err) ELSE
    LET d1 == dot(s, major.next) IN
    IF ~d1.ok THEN VersionErr(d1.err) ELSE
    LET minor == numeric_identifier(s, d1.next) IN
    IF ~minor.ok THEN VersionErr(minor.err) ELSE
    LET d2 == dot(s, minor.next) IN
    IF ~d2.ok THEN VersionErr(d2.err) ELSE
    LET patch == numeric_identifier(s, d2.next) IN
    IF ~patch.ok THEN VersionErr(patch.err) ELSE
    IF patch.next <= Len(s) THEN VersionErr("UnexpectedCharAfter")
    ELSE [ok |-> TRUE, v |-> <<major.val, minor.val, patch.val>>, err |-> ""]

----------------------------------------------------------------------------
(* The inputs of a resolution *)

\* the version constraints a caller can give
VersionReqs == {"^1"}
STAR == "*"

\* the versions a caller can have installed
Versions == {<<1, 2, 0>>, <<1, 3, 0>>}

\* the version strings a manifest can carry
VersionStrings == {<<"1", ".", "2", ".", "0">>, <<"1", ".", "2">>}

\* the target triples, in the order the caller prefers them
TargetNames == <<"t1", "t2", "t3", "t4">>

BinNames == {"a", "b"}

\* PkgMeta with no field set
PkgMeta_default == [pkg_url |-> None, bin_dir |-> None, overrides |-> <<>>]

\* the [package.metadata.binstall] sections a manifest can carry
PkgMetas ==
    {[pkg_url |-> None, bin_dir |-> Some("tool"),
      overrides |-> <<[target |-> "t2", pkg_url |-> None,
                       bin_dir |-> Some("{ bin }")]>>]}

Product(n) == [name |-> n]

\* the [[bin]] lists a manifest can carry: no product, unnamed products only,
\* one named product, two with distinct names, two with the same name
ManifestBins ==
    {<<>>,
     <<Product(None)>>,
     <<Product(None), Product(None)>>,
     <<Product(Some("a"))>>,
     <<Product(None), Product(Some("a"))>>,
     <<Product(Some("a")), Product(Some("b"))>>,
     <<Product(Some("a")), Product(None), Product(Some("a"))>>}

Packages ==
    [name : {"foo"}, version : VersionStrings,
     metadata : {None} \cup {Some([binstall |-> Some(m)]) : m \in PkgMetas}]

Manifests ==
    [package : {None} \cup {Some(p) : p \in Packages},
     bin : ManifestBins]

----------------------------------------------------------------------------
(* Results *)

NoResult == [kind |-> "None"]
Ok(r) == [kind |-> "Ok", value |-> r]
Err(e) == [kind |-> "Err", err |-> e]

\* BinstallError::crate_context (line 111)
crate_context(e, name) == [type |-> "CrateContext", crate |-> name, error |-> e]

Init ==
    /\ crate_name \in [name : {"foo"},
                       version_req : {None} \cup {Some(r) : r \in VersionReqs}]
    /\ opts \in [version_req : {None} \cup {Some(r) : r \in VersionReqs},
                 manifest_path : {None, Some("path")},
                 cli_overrides : {PkgMeta_default}]
    /\ curr_version \in {None} \cup {Some(v) : v \in Versions}
    /\ pc = "start"
    /\ version_req = None
    /\ manifest = None
    /\ package = None
    /\ binaries = <<>>
    /\ desired_targets = <<>>
    /\ handles = <<>>
    /\ tasks = <<>>
    /\ i = 1
    /\ bin_path = None
    /\ unpacked = None
    /\ joined = <<>>
    /\ invoked = <<>>
    /\ log = <<>>
    /\ net = {}
    /\ printed = FALSE
    /\ result = NoResult

----------------------------------------------------------------------------
(* Metadata: PkgMeta::clone_without_overrides, PkgMeta::merge, and the     *)
(* lookup meta.overrides.get(target)                                       *)

clone_without_overrides(m) ==
    [pkg_url |-> m.pkg_url, bin_dir |-> m.bin_dir, overrides |-> <<>>]

\* a field present in the override replaces the field, an absent one is kept
merge(m, o) ==
    [m EXCEPT !.pkg_url = IF IsSome(o.pkg_url) THEN o.pkg_url ELSE @,
              !.bin_dir = IF IsSome(o.bin_dir) THEN o.bin_dir ELSE @]

overrides_get(m, target) ==
    LET hits == {k \in DOMAIN m.overrides : m.overrides[k].target = target} IN
    IF hits = {} THEN None ELSE Some(m.overrides[CHOOSE k \in hits : TRUE])

\* lines 172-177: package.metadata.and_then(|m| m.binstall).unwrap_or_default()
meta_of(p) ==
    IF IsSome(p.metadata) /\ IsSome(Unwrap(p.metadata).binstall)
    THEN Unwrap(Unwrap(p.metadata).binstall)
    ELSE PkgMeta_default

\* a merge that applies the command-line override before the target's
Data_cli_first(p, m, cli, target) ==
    LET base == merge(clone_without_overrides(m), cli)
        o == overrides_get(m, target)
    IN [name |-> p.name, target |-> target, version |-> p.version,
        meta |-> IF IsSome(o) THEN merge(base, Unwrap(o)) ELSE base]

\* lines 195-213: the Data of one target
Data(p, m, cli, target) ==
    LET base == clone_without_overrides(m)
        o == overrides_get(m, target)
        with_override == IF IsSome(o) THEN merge(base, Unwrap(o)) ELSE base
    IN [name |-> p.name, target |-> target, version |-> p.version,
        meta |-> merge(with_override, cli)]

Backends == <<"GhCrateMeta", "QuickInstall">>

\* a matrix built backend-major: every target for one backend, then the next
Fetchers_backend_major(p, m, cli, targets) ==
    [k \in 1..(Len(targets) * Len(Backends)) |->
        [kind |-> Backends[((k - 1) \div Len(targets)) + 1],
         data |-> Data(p, m, cli, targets[((k - 1) % Len(targets)) + 1])]]

\* lines 192-223: the fetchers of the matrix, target-major, backend-minor
Fetchers(p, m, cli, targets) ==
    [k \in 1..(Len(targets) * Len(Backends)) |->
        [kind |-> Backends[((k - 1) % Len(Backends)) + 1],
         data |-> Data(p, m, cli, targets[((k - 1) \div Len(Backends)) + 1])]]

\* Fetcher::target_meta
target_meta(fetcher) == fetcher.data.meta

----------------------------------------------------------------------------
(* Dropping an AutoAbortJoinHandle aborts its task if it still runs *)

abort(st) == IF st = "running" THEN "aborted" ELSE st

\* the handles from index `from` on go out of scope
DropHandles(ts, from) ==
    [k \in DOMAIN ts |-> IF k >= from THEN abort(ts[k]) ELSE ts[k]]

----------------------------------------------------------------------------
(* bins::infer_bin_dir_template, bins::BinFile::from_product and           *)
(* BinFile::check_source_exists                                            *)

infer_bin_dir_template(data) == "{ bin }"

render(template, bin) == IF template = "{ bin }" THEN bin ELSE template

from_product(data, product, bin_dir) ==
    [base_name |-> Unwrap(product.name),
     source |-> [dir |-> data.bin_path,
                 file |-> render(bin_dir, Unwrap(product.name))],
     dest |-> [dir |-> data.install_path, file |-> Unwrap(product.name)]]

check_source_exists(bin_file, files) ==
    IF bin_file.source.file \in files
    THEN Ok("unit")
    ELSE Err([type |-> "BinFileNotFound", path |-> bin_file.source])

----------------------------------------------------------------------------
(* collect_bin_files (lines 337-381) *)

\* lines 370-378: the first bin whose source is already in source_set
FirstDuplicate(bin_files) ==
    LET dups == {j \in DOMAIN bin_files :
                    \E h \in 1..(j - 1) : bin_files[h].source = bin_files[j].source}
    IN IF dups = {} THEN 0 ELSE CHOOSE j \in dups : \A h \in dups : j <= h

\* a collection without the source_set check
collect_bin_files_no_source_set(fetcher, meta, bins, path, install_path) ==
    LET bin_data == [name |-> fetcher.data.name, target |-> fetcher.data.target,
                     version |-> fetcher.data.version, meta |-> meta,
                     bin_path |-> path, install_path |-> install_path]
        bin_dir == IF IsSome(meta.bin_dir) THEN Unwrap(meta.bin_dir)
                   ELSE infer_bin_dir_template(bin_data)
    IN Ok([j \in DOMAIN bins |-> from_product(bin_data, bins[j], bin_dir)])

collect_bin_files(fetcher, meta, bins, path, install_path) ==
    LET bin_data == [name |-> fetcher.data.name, target |-> fetcher.data.target,
                     version |-> fetcher.data.version, meta |-> meta,
                     bin_path |-> path, install_path |-> install_path]
        bin_dir == IF IsSome(meta.bin_dir) THEN Unwrap(meta.bin_dir)
                   ELSE infer_bin_dir_template(bin_data)
        bin_files == [j \in DOMAIN bins |-> from_product(bin_data, bins[j], bin_dir)]
        d == FirstDuplicate(bin_files)
    IN IF d # 0
       THEN Err([type |-> "DuplicateSourceFilePath", path |-> bin_files[d].source])
       ELSE Ok(bin_files)

----------------------------------------------------------------------------
(* download_extract_and_verify (lines 279-334).  `fetched` is the outcome  *)
(* of fetcher.fetch_and_extract: Err(e), or Ok(the files it unpacked).     *)

\* a check that looks at the first bin file only
FirstMissing_first_only(bin_files, files) ==
    IF bin_files # <<>> /\ check_source_exists(bin_files[1], files).kind = "Err"
    THEN 1 ELSE 0

\* lines 328-330: the first bin file whose source does not exist
FirstMissing(bin_files, files) ==
    LET miss == {j \in DOMAIN bin_files :
                    check_source_exists(bin_files[j], files).kind = "Err"}
    IN IF miss = {} THEN 0 ELSE CHOOSE j \in miss : \A h \in miss : j <= h

\* a pipeline that does not check that the sources exist
download_extract_and_verify_unchecked(fetcher, path, install_path, bins, fetched) ==
    IF fetched.kind = "Err" THEN fetched
    ELSE collect_bin_files(fetcher, target_meta(fetcher), bins, path, install_path)

\* a pipeline that looks for the files before it looks for duplicates
download_extract_and_verify_exists_first(fetcher, path, install_path, bins, fetched) ==
    LET meta == target_meta(fetcher) IN
    IF fetched.kind = "Err" THEN fetched ELSE
    LET collected == collect_bin_files_no_source_set(fetcher, meta, bins, path,
                                                     install_path)
        m == FirstMissing(collected.value, fetched.value) IN
    IF m # 0 THEN check_source_exists(collected.value[m], fetched.value)
    ELSE collect_bin_files(fetcher, meta, bins, path, install_path)

\* lines 287-333: fetch_and_extract(..).await?, then collect_bin_files(..)?,
\* then check_source_exists()? for each bin file in turn
download_extract_and_verify(fetcher, path, install_path, bins, fetched) ==
    LET meta == target_meta(fetcher) IN
    IF fetched.kind = "Err" THEN fetched ELSE
    LET collected == collect_bin_files(fetcher, meta, bins, path, install_path) IN
    IF collected.kind = "Err" THEN collected ELSE
    LET m == FirstMissing(collected.value, fetched.value) IN
    IF m # 0 THEN check_source_exists(collected.value[m], fetched.value)
    ELSE collected

----------------------------------------------------------------------------
(* resolve (lines 91-116): what the caller gets once resolve_inner returns *)
(* r.  The locals go out of scope, so the handles still held are dropped.  *)

\* a resolve whose probe tasks outlive the handles (detached on drop)
Return_detached(r) ==
    /\ pc' = "done"
    /\ result' = IF r.kind = "Err"
                 THEN Err(crate_context(r.err, crate_name.name))
                 ELSE r
    /\ printed' = (r.kind = "Ok")
    /\ UNCHANGED tasks

\* a resolve that hands the error of resolve_inner on as it is
Return_no_context(r) ==
    /\ pc' = "done"
    /\ result' = r
    /\ printed' = (r.kind = "Ok")
    /\ tasks' = DropHandles(tasks, i)

\* lines 101-115: resolve returns what resolve_inner returned, an error
\* through map_err(crate_context) and `?`, a resolution after print
Return(r) ==
    /\ pc' = "done"
    /\ result' = IF r.kind = "Err"
                 THEN Err(crate_context(r.err, crate_name.name))
                 ELSE r
    /\ printed' = (r.kind = "Ok")
    /\ tasks' = DropHandles(tasks, i)

\* a step that does not return
Continue(next) ==
    /\ pc' = next
    /\ UNCHANGED <<result, printed, tasks>>

----------------------------------------------------------------------------
(* resolve_inner, up to the launch of the probes (lines 129-186) *)

\* a selection that lets the embedded constraint win over the option
SelectVersionReq_embedded_wins ==
    /\ pc = "start"
    /\ version_req' =
         IF IsSome(crate_name.version_req) THEN crate_name.version_req
         ELSE IF IsSome(opts.version_req) THEN opts.version_req
         ELSE Some(STAR)
    /\ Continue("load_manifest")
    /\ UNCHANGED <<crate_name, opts, curr_version, manifest, package, binaries,
                   desired_targets, handles, i, bin_path, unpacked, joined,
                   invoked, log, net>>

\* lines 129-134
SelectVersionReq ==
    /\ pc = "start"
    /\ IF IsSome(crate_name.version_req) /\ IsSome(opts.version_req)
       THEN /\ Return(Err([type |-> "SuperfluousVersionOption"]))
            /\ UNCHANGED version_req
       ELSE /\ version_req' =
                 IF IsSome(crate_name.version_req) THEN crate_name.version_req
                 ELSE IF IsSome(opts.version_req) THEN opts.version_req
                 ELSE Some(STAR)
            /\ Continue("load_manifest")
    /\ UNCHANGED <<crate_name, opts, curr_version, manifest, package, binaries,
                   desired_targets, handles, i, bin_path, unpacked, joined,
                   invoked, log, net>>

\* load_manifest_path (lines 384-408): `kind` is what the path is on disk,
\* `parsed` what Manifest::from_path_with_metadata makes of the file
load_manifest_path(kind, parsed) ==
    IF kind \notin {"dir", "file"}
    THEN Err([type |-> "CargoManifestPath"])
    ELSE parsed

\* the outcomes of reading or fetching a manifest
ManifestResults(e) == {Err([type |-> e])} \cup {Ok(m) : m \in Manifests}

\* lines 139-141: a local manifest is loaded at once, a registry fetch starts
LoadManifest ==
    /\ pc = "load_manifest"
    /\ IF IsSome(opts.manifest_path)
       THEN \E kind \in {"dir", "file", "missing"},
               parsed \in ManifestResults("CargoManifest") :
                LET r == load_manifest_path(kind, parsed) IN
                IF r.kind = "Err"
                THEN Return(r) /\ UNCHANGED <<manifest, net>>
                ELSE /\ manifest' = Some(r.value)
                     /\ Continue("check_package")
                     /\ UNCHANGED net
       ELSE /\ net' = net \cup {"registry"}
            /\ Continue("fetch_crate")
            /\ UNCHANGED manifest
    /\ UNCHANGED <<crate_name, opts, curr_version, version_req, package,
                   binaries, desired_targets, handles, i, bin_path, unpacked,
                   joined, invoked, log>>

\* lines 142-148: fetch_crate_cratesio(..).await? completes
FetchCrateDone ==
    /\ pc = "fetch_crate"
    /\ \E r \in ManifestResults("CratesIoApi") :
        IF r.kind = "Err"
        THEN Return(r) /\ UNCHANGED manifest
        ELSE manifest' = Some(r.value) /\ Continue("check_package")
    /\ UNCHANGED <<crate_name, opts, curr_version, version_req, package,
                   binaries, desired_targets, handles, i, bin_path, unpacked,
                   joined, invoked, log, net>>

\* a resolve that looks at the binaries before it compares versions
CheckPackage_binaries_first ==
    /\ pc = "check_package"
    /\ IF IsSome(Unwrap(manifest).package)
       THEN /\ package' = Unwrap(manifest).package
            /\ IF \A j \in DOMAIN Unwrap(manifest).bin :
                     Unwrap(manifest).bin[j].name = None
               THEN Return(Err([type |-> "UnspecifiedBinaries"]))
               ELSE Continue("check_version")
       ELSE /\ Return(Err([type |-> "CargoTomlMissingPackage",
                           name |-> crate_name.name]))
            /\ UNCHANGED package
    /\ UNCHANGED <<crate_name, opts, curr_version, version_req, manifest,
                   binaries, desired_targets, handles, i, bin_path, unpacked,
                   joined, invoked, log, net>>

\* lines 152-154
CheckPackage ==
    /\ pc = "check_package"
    /\ IF IsSome(Unwrap(manifest).package)
       THEN /\ package' = Unwrap(manifest).package
            /\ Continue("check_version")
       ELSE /\ Return(Err([type |-> "CargoTomlMissingPackage",
                           name |-> crate_name.name]))
            /\ UNCHANGED package
    /\ UNCHANGED <<crate_name, opts, curr_version, version_req, manifest,
                   binaries, desired_targets, handles, i, bin_path, unpacked,
                   joined, invoked, log, net>>

\* a comparison that goes on when the versions are equal
CheckVersion_no_early_return ==
    /\ pc = "check_version"
    /\ IF IsSome(curr_version)
       THEN LET new_version == Version_parse(Unwrap(package).version) IN
            IF ~new_version.ok
            THEN Return(Err([type |-> "VersionParse",
                             v |-> Unwrap(package).version,
                             err |-> new_version.err]))
            ELSE Continue("check_binaries")
       ELSE Continue("check_binaries")
    /\ UNCHANGED <<crate_name, opts, curr_version, version_req, manifest,
                   package, binaries, desired_targets, handles, i, bin_path,
                   unpacked, joined, invoked, log, net>>

\* a comparison that takes an unparsable version for a different one
CheckVersion_parse_error_ignored ==
    /\ pc = "check_version"
    /\ IF IsSome(curr_version)
       THEN LET new_version == Version_parse(Unwrap(package).version) IN
            IF new_version.ok /\ new_version.v = Unwrap(curr_version)
            THEN Return(Ok([type |-> "AlreadyUpToDate"]))
            ELSE Continue("check_binaries")
       ELSE Continue("check_binaries")
    /\ UNCHANGED <<crate_name, opts, curr_version, version_req, manifest,
                   package, binaries, desired_targets, handles, i, bin_path,
                   unpacked, joined, invoked, log, net>>

\* lines 156-170
CheckVersion ==
    /\ pc = "check_version"
    /\ IF IsSome(curr_version)
       THEN LET new_version == Version_parse(Unwrap(package).version) IN
            IF ~new_version.ok
            THEN Return(Err([type |-> "VersionParse",
                             v |-> Unwrap(package).version,
                             err |-> new_version.err]))
            ELSE IF new_version.v = Unwrap(curr_version)
            THEN Return(Ok([type |-> "AlreadyUpToDate"]))
            ELSE Continue("check_binaries")
       ELSE Continue("check_binaries")
    /\ UNCHANGED <<crate_name, opts, curr_version, version_req, manifest,
                   package, binaries, desired_targets, handles, i, bin_path,
                   unpacked, joined, invoked, log, net>>

\* line 181: binaries.retain(|product| product.name.is_some())
retain_named(bins) == SelectSeq(bins, LAMBDA product : IsSome(product.name))

\* a check that looks at the list before the unnamed products are removed
CheckBinaries_before_retain ==
    /\ pc = "check_binaries"
    /\ binaries' = retain_named(Unwrap(manifest).bin)
    /\ IF Unwrap(manifest).bin = <<>>
       THEN Return(Err([type |-> "UnspecifiedBinaries"]))
       ELSE Continue("get_targets")
    /\ UNCHANGED <<crate_name, opts, curr_version, version_req, manifest,
                   package, desired_targets, handles, i, bin_path, unpacked,
                   joined, invoked, log, net>>

\* lines 172-186
CheckBinaries ==
    /\ pc = "check_binaries"
    /\ binaries' = retain_named(Unwrap(manifest).bin)
    /\ IF binaries' = <<>>
       THEN Return(Err([type |-> "UnspecifiedBinaries"]))
       ELSE Continue("get_targets")
    /\ UNCHANGED <<crate_name, opts, curr_version, version_req, manifest,
                   package, desired_targets, handles, i, bin_path, unpacked,
                   joined, invoked, log, net>>

----------------------------------------------------------------------------
(* The probes (lines 188-223) and the scan (lines 225-274) *)

\* the ordered lists of targets opts.desired_targets can yield
TargetLists == {SubSeq(TargetNames, 1, n) : n \in 0..MaxTargets}

INSTALL_PATH == "install"

\* a matrix whose probes start one by one: only the first is spawned when
\* the scan begins
SpawnProbesWith_lazy(lists) ==
    /\ pc = "get_targets"
    /\ \E targets \in lists :
        /\ desired_targets' = targets
        /\ handles' = Fetchers(Unwrap(package), meta_of(Unwrap(package)),
                               opts.cli_overrides, targets)
    /\ tasks' = [k \in DOMAIN handles' |->
                    IF k = 1 THEN "running" ELSE "unspawned"]
    /\ net' = IF handles' = <<>> THEN net ELSE net \cup {"probe"}
    /\ i' = 1
    /\ pc' = "join"
    /\ UNCHANGED <<crate_name, opts, curr_version, version_req, manifest,
                   package, binaries, bin_path, unpacked, joined, invoked,
                   log, printed, result>>

\* lines 188-223: desired_targets.get().await completes; one probe task is
\* spawned per fetcher before anything is awaited
SpawnProbesWith(lists) ==
    /\ pc = "get_targets"
    /\ \E targets \in lists :
        /\ desired_targets' = targets
        /\ handles' = Fetchers(Unwrap(package), meta_of(Unwrap(package)),
                               opts.cli_overrides, targets)
    /\ tasks' = [k \in DOMAIN handles' |-> "running"]
    /\ net' = IF handles' = <<>> THEN net ELSE net \cup {"probe"}
    /\ i' = 1
    /\ pc' = "join"
    /\ UNCHANGED <<crate_name, opts, curr_version, version_req, manifest,
                   package, binaries, bin_path, unpacked, joined, invoked,
                   log, printed, result>>

SpawnProbes == SpawnProbesWith(TargetLists)

\* fetcher.find() of task k completes: Ok(true), Ok(false) or Err
ProbeFinish(k) ==
    /\ tasks[k] = "running"
    /\ \E r \in {"true", "false", "error"} : tasks' = [tasks EXCEPT ![k] = r]
    /\ UNCHANGED <<crate_name, opts, curr_version, pc, version_req, manifest,
                   package, binaries, desired_targets, handles, i, bin_path,
                   unpacked, joined, invoked, log, net, printed, result>>

\* lines 229-234
bin_path_of(fetcher) ==
    [crate |-> crate_name.name, target |-> fetcher.data.target,
     fetcher_name |-> fetcher.kind]

\* a scan that tries the download of a pair whose probe failed
JoinAt_error_downloads(k) ==
    /\ pc = "join"
    /\ k \in DOMAIN handles
    /\ tasks[k] \in {"true", "false", "error"}
    /\ joined' = Append(joined, k)
    /\ CASE tasks[k] \in {"true", "error"} ->
              /\ bin_path' = Some(bin_path_of(handles[k]))
              /\ invoked' = Append(invoked, k)
              /\ net' = net \cup {"download"}
              /\ i' = k
              /\ pc' = "fetch_and_extract"
              /\ UNCHANGED log
         [] tasks[k] = "false" ->
              /\ i' = k + 1
              /\ UNCHANGED <<pc, bin_path, invoked, net, log>>
    /\ UNCHANGED <<crate_name, opts, curr_version, version_req, manifest,
                   package, binaries, desired_targets, handles, tasks,
                   unpacked, printed, result>>

\* lines 226-271: handle.flattened_join().await of handle k completes
JoinAt(k) ==
    /\ pc = "join"
    /\ k \in DOMAIN handles
    /\ tasks[k] \in {"true", "false", "error"}
    /\ joined' = Append(joined, k)
    /\ CASE tasks[k] = "true" ->
              \* download_extract_and_verify starts, up to line 291
              /\ bin_path' = Some(bin_path_of(handles[k]))
              /\ invoked' = Append(invoked, k)
              /\ net' = net \cup {"download"}
              /\ i' = k
              /\ pc' = "fetch_and_extract"
              /\ UNCHANGED log
         [] tasks[k] = "false" ->
              /\ i' = k + 1
              /\ UNCHANGED <<pc, bin_path, invoked, net, log>>
         [] tasks[k] = "error" ->
              /\ log' = Append(log, [fetcher |-> k, what |-> "checking",
                                     err |-> [type |-> "Probe"]])
              /\ i' = k + 1
              /\ UNCHANGED <<pc, bin_path, invoked, net>>
    /\ UNCHANGED <<crate_name, opts, curr_version, version_req, manifest,
                   package, binaries, desired_targets, handles, tasks,
                   unpacked, printed, result>>

\* a scan that takes whichever probe has finished, not the next in order
Join_first_finished == \E k \in i..Len(handles) : JoinAt(k)

\* a scan that starts the pipeline of the next pair while one is running
Join_overlapping ==
    \/ JoinAt(i)
    \/ /\ pc = "fetch_and_extract"
       /\ i + 1 \in DOMAIN handles
       /\ tasks[i + 1] = "true"
       /\ \A n \in DOMAIN invoked : invoked[n] # i + 1
       /\ joined' = Append(joined, i + 1)
       /\ invoked' = Append(invoked, i + 1)
       /\ bin_path' = Some(bin_path_of(handles[i + 1]))
       /\ UNCHANGED <<crate_name, opts, curr_version, pc, version_req,
                      manifest, package, binaries, desired_targets, handles,
                      tasks, i, unpacked, log, net, printed, result>>

\* line 225: the for loop takes the handles in the order of the Vec
Join == JoinAt(i)

\* a scan that propagates the error of the pipeline with `?`
OnPipelineResult_propagate(r) ==
    IF r.kind = "Ok"
    THEN /\ Return(Ok([type |-> "Fetch", fetcher |-> handles[i],
                       package |-> Unwrap(package),
                       name |-> crate_name.name,
                       version_req |-> Unwrap(version_req),
                       bin_files |-> r.value]))
         /\ UNCHANGED <<i, log>>
    ELSE /\ Return(r)
         /\ UNCHANGED <<i, log>>

\* a scan that starts the pipeline of the same pair again when it fails
OnPipelineResult_retry(r) ==
    IF r.kind = "Ok"
    THEN /\ Return(Ok([type |-> "Fetch", fetcher |-> handles[i],
                       package |-> Unwrap(package),
                       name |-> crate_name.name,
                       version_req |-> Unwrap(version_req),
                       bin_files |-> r.value]))
         /\ UNCHANGED <<i, log>>
    ELSE /\ UNCHANGED <<i, log>>
         /\ Continue("fetch_and_extract")

\* lines 245-261: what the scan does with the result r of the pipeline
OnPipelineResult(r) ==
    IF r.kind = "Ok"
    THEN /\ Return(Ok([type |-> "Fetch", fetcher |-> handles[i],
                       package |-> Unwrap(package),
                       name |-> crate_name.name,
                       version_req |-> Unwrap(version_req),
                       bin_files |-> r.value]))
         /\ UNCHANGED <<i, log>>
    ELSE /\ log' = Append(log, [fetcher |-> i, what |-> "downloading",
                                err |-> r.err])
         /\ i' = i + 1
         /\ Continue("join")

\* what fetch_and_extract can unpack
FileNames == BinNames \cup {"tool"}

\* lines 291-334 and 245-261: fetcher.fetch_and_extract(bin_path).await
\* completes, the bin files are collected and verified, and the scan goes on
FetchAndExtractDone ==
    /\ pc = "fetch_and_extract"
    /\ \E fetched \in {Err([type |-> "Io"])} \cup {Ok(fs) : fs \in SUBSET FileNames} :
        /\ unpacked' = IF fetched.kind = "Ok"
                       THEN Some([dir |-> Unwrap(bin_path),
                                  files |-> fetched.value])
                       ELSE unpacked
        /\ OnPipelineResult(
              download_extract_and_verify(handles[i], Unwrap(bin_path),
                                          INSTALL_PATH, binaries, fetched))
    /\ UNCHANGED <<crate_name, opts, curr_version, version_req, manifest,
                   package, binaries, desired_targets, handles, bin_path,
                   joined, invoked, net>>

\* a scan that reports an error when no backend is left
Exhausted_is_error ==
    /\ pc = "join"
    /\ i > Len(handles)
    /\ Return(Err([type |-> "NoViableBackend"]))
    /\ UNCHANGED <<crate_name, opts, curr_version, version_req, manifest,
                   package, binaries, desired_targets, handles, i, bin_path,
                   unpacked, joined, invoked, log, net>>

\* line 274: the loop has gone through every handle
Exhausted ==
    /\ pc = "join"
    /\ i > Len(handles)
    /\ Return(Ok([type |-> "InstallFromSource", package |-> Unwrap(package)]))
    /\ UNCHANGED <<crate_name, opts, curr_version, version_req, manifest,
                   package, binaries, desired_targets, handles, i, bin_path,
                   unpacked, joined, invoked, log, net>>

\* the positions at which the resolve future is suspended
AtAwait ==
    \/ pc \in {"fetch_crate", "get_targets", "fetch_and_extract"}
    \/ pc = "join" /\ i <= Len(handles)

\* the caller drops the resolve future while it is suspended: every local
\* is dropped, the handles with it
Abort ==
    /\ AtAwait
    /\ pc' = "aborted"
    /\ tasks' = DropHandles(tasks, i)
    /\ UNCHANGED <<crate_name, opts, curr_version, version_req, manifest,
                   package, binaries, desired_targets, handles, i, bin_path,
                   unpacked, joined, invoked, log, net, printed, result>>

Next ==
    \/ SelectVersionReq
    \/ LoadManifest
    \/ FetchCrateDone
    \/ CheckPackage
    \/ CheckVersion
    \/ CheckBinaries
    \/ SpawnProbes
    \/ \E k \in DOMAIN tasks : ProbeFinish(k)
    \/ Join
    \/ FetchAndExtractDone
    \/ Exhausted
    \/ Abort

Spec == Init /\ [][Next]_vars

\* resolve_inner at line 188, called for a crate with no version constraint
\* and nothing installed, its manifest read from a local path: the package
\* is there and at least one binary is named
InitRace ==
    /\ crate_name = [name |-> "foo", version_req |-> None]
    /\ opts = [version_req |-> None, manifest_path |-> Some("path"),
               cli_overrides |-> PkgMeta_default]
    /\ curr_version = None
    /\ pc = "get_targets"
    /\ version_req = Some(STAR)
    /\ \E m \in Manifests :
          /\ m.package # None
          /\ retain_named(m.bin) # <<>>
          /\ manifest = Some(m)
          /\ package = m.package
          /\ binaries = retain_named(m.bin)
    /\ desired_targets = <<>>
    /\ handles = <<>>
    /\ tasks = <<>>
    /\ i = 1
    /\ bin_path = None
    /\ unpacked = None
    /\ joined = <<>>
    /\ invoked = <<>>
    /\ log = <<>>
    /\ net = {}
    /\ printed = FALSE
    /\ result = NoResult

\* the race polled to its end: the caller never drops the future
NextRace ==
    \/ SpawnProbes
    \/ \E k \in DOMAIN tasks : ProbeFinish(k)
    \/ Join
    \/ FetchAndExtractDone
    \/ Exhausted

\* every launched probe completes, every invoked pipeline completes, and
\* the executor polls the resolve future whenever what it awaits is ready
FairRace ==
    /\ \A k \in 1..(Len(Backends) * MaxTargets) :
          WF_vars(k \in DOMAIN tasks /\ ProbeFinish(k))
    /\ WF_vars(FetchAndExtractDone)
    /\ WF_vars(Join)
    /\ WF_vars(Exhausted)

FairSpec == InitRace /\ [][NextRace]_vars /\ FairRace

----------------------------------------------------------------------------
(* The matrix builder by itself (lines 188-223): resolve_inner stands at   *)
(* desired_targets.get().await with a package whose metadata, and with     *)
(* command-line overrides, drawn from every combination of set and unset   *)
(* fields, and with more targets than the whole resolution is run with.    *)

\* most desired targets the matrix is built for
MaxMatrixTargets == 2

MatrixTargetLists == {SubSeq(TargetNames, 1, n) : n \in 0..MaxMatrixTargets}

\* a field is unset or set to a value that tells where it was set
FieldValues(url, dir) ==
    [pkg_url : {None, Some(url)}, bin_dir : {None, Some(dir)}]

\* no override for the target, or one with each field set or unset
OverridesFor(target, url, dir) ==
    {<<>>} \cup
    {<<[target |-> target, pkg_url |-> v.pkg_url, bin_dir |-> v.bin_dir]>> :
        v \in FieldValues(url, dir)}

MatrixPkgMetas ==
    {[pkg_url |-> b.pkg_url, bin_dir |-> b.bin_dir, overrides |-> o1 \o o2] :
        b \in FieldValues("url_base", "dir_base"),
        o1 \in OverridesFor("t1", "url_t1", "dir_t1"),
        o2 \in OverridesFor("t2", "url_t2", "dir_t2")}

MatrixCliOverrides ==
    {[pkg_url |-> c.pkg_url, bin_dir |-> c.bin_dir, overrides |-> <<>>] :
        c \in FieldValues("url_cli", "dir_cli")}

InitMatrix ==
    /\ crate_name = [name |-> "foo", version_req |-> None]
    /\ opts \in [version_req : {None}, manifest_path : {Some("path")},
                 cli_overrides : MatrixCliOverrides]
    /\ curr_version = None
    /\ pc = "get_targets"
    /\ version_req = Some(STAR)
    /\ \E m \in MatrixPkgMetas :
          LET p == [name |-> "foo", version |-> <<"1", ".", "2", ".", "0">>,
                    metadata |-> Some([binstall |-> Some(m)])]
          IN /\ manifest = Some([package |-> Some(p),
                                 bin |-> <<Product(Some("a"))>>])
             /\ package = Some(p)
    /\ binaries = <<Product(Some("a"))>>
    /\ desired_targets = <<>>
    /\ handles = <<>>
    /\ tasks = <<>>
    /\ i = 1
    /\ bin_path = None
    /\ unpacked = None
    /\ joined = <<>>
    /\ invoked = <<>>
    /\ log = <<>>
    /\ net = {}
    /\ printed = FALSE
    /\ result = NoResult

NextMatrix == SpawnProbesWith(MatrixTargetLists)

SpecMatrix == InitMatrix /\ [][NextMatrix]_vars

----------------------------------------------------------------------------
(* Properties *)

Range(f) == {f[x] : x \in DOMAIN f}

Finished(k) == tasks[k] \in {"true", "false", "error"}

Returned == pc = "done"
ReturnedOk(type) ==
    pc = "done" /\ result.kind = "Ok" /\ result.value.type = type
ReturnedErr(type) ==
    pc = "done" /\ result.kind = "Err" /\ result.err.error.type = type

\* the pipeline of pair p is running
PipelineRunning(p) == pc = "fetch_and_extract" /\ i = p

\* resolve was aborted while the pipeline of pair p was running
PipelineAborted(p) == pc = "aborted" /\ i = p /\ p \in Range(invoked)

\* the pipeline of pair p failed: the scan logged its error
PipelineFailed(p) ==
    \E e \in Range(log) : e.fetcher = p /\ e.what = "downloading"

\* pair p is done with: its probe result was obtained and, if it was true,
\* its pipeline has run to its end
Handled(p) ==
    /\ p \in Range(joined)
    /\ Finished(p)
    /\ tasks[p] = "true" =>
          p \in Range(invoked) /\ ~PipelineRunning(p) /\ ~PipelineAborted(p)

\* the index of the fetcher a Fetch names
FetchIndex == CHOOSE k \in DOMAIN handles : handles[k] = result.value.fetcher

PipelineErrors == {"Io", "DuplicateSourceFilePath", "BinFileNotFound"}

\* C1: the scan evaluates the pairs strictly in matrix order: whenever the
\* probe result of a pair q has been awaited or q's pipeline has been
\* started, every pair p before q is done with (its probe result obtained
\* and, if true, its pipeline finished), whichever probes finished first.
C1_ScanInMatrixOrder ==
    /\ \A q \in Range(joined) \cup Range(invoked) :
          \A p \in 1..(q - 1) : Handled(p)
    /\ \A a, b \in DOMAIN joined : a < b => joined[a] < joined[b]
    /\ \A a, b \in DOMAIN invoked : a < b => invoked[a] < invoked[b]

\* C1 witness: the pipeline of pair 1 runs while the probe of pair 2 has
\* already finished and has not been looked at
C1_Witness ==
    /\ PipelineRunning(1)
    /\ Len(handles) >= 2
    /\ Finished(2)
    /\ joined = <<1>>

\* C2: a Fetch names the first pair in matrix order whose probe is true and
\* whose pipeline succeeds, and carries the bin files of that pipeline, one
\* per binary, each in the directory of that pair and present in what was
\* unpacked; every earlier pair had a false or failed probe or a failed
\* pipeline, and no later pair was consulted.  And whenever some pair has a
\* true probe and a pipeline that did not fail, the scan returns a Fetch.
C2_FirstViablePairWins ==
    /\ ReturnedOk("Fetch") =>
          /\ \E k \in DOMAIN handles : handles[k] = result.value.fetcher
          /\ LET k == FetchIndex IN
             /\ tasks[k] = "true"
             /\ ~PipelineFailed(k)
             /\ invoked # <<>> /\ invoked[Len(invoked)] = k
             /\ DOMAIN result.value.bin_files = DOMAIN binaries
             /\ \A j \in DOMAIN binaries :
                   LET f == result.value.bin_files[j] IN
                   /\ f.base_name = Unwrap(binaries[j].name)
                   /\ f.source.dir = [crate |-> crate_name.name,
                                      target |-> handles[k].data.target,
                                      fetcher_name |-> handles[k].kind]
                   /\ unpacked # None
                   /\ f.source.dir = Unwrap(unpacked).dir
                   /\ f.source.file \in Unwrap(unpacked).files
             /\ \A p \in 1..(k - 1) :
                   \/ tasks[p] \in {"false", "error"}
                   \/ tasks[p] = "true" /\ PipelineFailed(p)
             /\ \A q \in (k + 1)..Len(handles) :
                   q \notin Range(joined) /\ q \notin Range(invoked)
    /\ Returned /\ binaries # <<>> /\ ~ReturnedOk("Fetch") =>
          \A p \in DOMAIN handles :
             \/ tasks[p] \in {"false", "error"}
             \/ tasks[p] = "true" /\ PipelineFailed(p)

\* C2 witness: pair 1 had a true probe and a failed pipeline, pair 2 is
\* fetched
C2_Witness ==
    /\ ReturnedOk("Fetch")
    /\ result.value.fetcher.kind = "QuickInstall"
    /\ tasks[1] = "true"
    /\ PipelineFailed(1)

\* C3: a failed pipeline of a pair with a true probe is never what resolve
\* returns: it is logged as a warning for that pair, and the scan has moved
\* on past the pair.
C3_PipelineFailureNotFatal ==
    /\ Returned /\ result.kind = "Err" =>
          result.err.error.type \notin PipelineErrors
    /\ \A p \in Range(invoked) :
          \/ PipelineRunning(p)
          \/ PipelineAborted(p)
          \/ ReturnedOk("Fetch") /\ p = invoked[Len(invoked)]
          \/ /\ PipelineFailed(p)
             /\ i > p
             /\ pc \in {"join", "fetch_and_extract", "done", "aborted"}
    /\ \A e \in Range(log) :
          e.what = "downloading" =>
             /\ e.err.type \in PipelineErrors
             /\ e.fetcher \in Range(invoked)
             /\ tasks[e.fetcher] = "true"

\* C3 witness: the pipeline of pair 1 failed on a duplicate source path and
\* the scan has awaited the probe of pair 2
C3_Witness ==
    /\ joined = <<1, 2>>
    /\ \E e \in Range(log) :
          /\ e.fetcher = 1
          /\ e.what = "downloading"
          /\ e.err.type = "DuplicateSourceFilePath"

\* C4: once the probes have been launched resolve never returns an error,
\* and it returns InstallFromSource, carrying the package, exactly when no
\* pair has a true probe and a pipeline that succeeded.
C4_ExhaustionIsInstallFromSource ==
    Returned /\ binaries # <<>> =>
       /\ result.kind = "Ok"
       /\ result.value.type \in {"Fetch", "InstallFromSource"}
       /\ result.value.type = "InstallFromSource" <=>
             \A p \in DOMAIN handles : ~(tasks[p] = "true" /\ ~PipelineFailed(p))
       /\ result.value.type = "InstallFromSource" =>
             /\ result.value.package = Unwrap(package)
             /\ \A p \in DOMAIN handles : Finished(p)

\* C4 witness: one probe failed, the other was true but its pipeline failed
C4_Witness ==
    /\ ReturnedOk("InstallFromSource")
    /\ Len(handles) = 2
    /\ tasks[1] = "error"
    /\ tasks[2] = "true"

\* C5: in every final state of resolve (it has returned or was aborted) no
\* probe task is running: a task whose result was never awaited has finished
\* by itself or has been aborted.
C5_NoProbeOutlivesResolve ==
    pc \in {"done", "aborted"} =>
       \A k \in DOMAIN tasks :
          /\ tasks[k] # "running"
          /\ tasks[k] = "aborted" => k \notin Range(joined)

\* C5 witness: resolve committed to pair 1 while the probe of pair 2 was
\* still running
C5_Witness ==
    /\ ReturnedOk("Fetch")
    /\ Len(handles) = 2
    /\ joined = <<1>>
    /\ tasks[2] = "aborted"

\* the caller's current version is the version of the resolved package
SameVersion ==
    /\ IsSome(package)
    /\ IsSome(curr_version)
    /\ Version_parse(Unwrap(package).version).ok
    /\ Version_parse(Unwrap(package).version).v = Unwrap(curr_version)

\* C6: when the caller's current version equals the version of the resolved
\* package, no probe task is ever spawned and no pipeline ever invoked, and
\* what resolve returns is AlreadyUpToDate.
C6_AlreadyUpToDateWithoutProbes ==
    SameVersion =>
       /\ handles = <<>> /\ tasks = <<>>
       /\ joined = <<>> /\ invoked = <<>>
       /\ "probe" \notin net /\ "download" \notin net
       /\ pc \in {"check_version", "done"}
       /\ Returned => result = Ok([type |-> "AlreadyUpToDate"])

\* C6 witness: version 1.2.0 is installed and 1.2.0 is resolved again
C6_Witness ==
    /\ ReturnedOk("AlreadyUpToDate")
    /\ curr_version = Some(<<1, 2, 0>>)
    /\ Unwrap(package).version = <<"1", ".", "2", ".", "0">>

\* the package reference and the option both carry a version constraint
BothVersionReqs == IsSome(crate_name.version_req) /\ IsSome(opts.version_req)

\* C7: with a version constraint in the package reference and one in the
\* options, resolve fails with SuperfluousVersionOption, and neither a
\* registry fetch nor a probe nor a download has happened, nor has a
\* manifest been loaded.
C7_ConflictingSpecifiersBeforeNetwork ==
    BothVersionReqs =>
       /\ net = {}
       /\ manifest = None /\ handles = <<>> /\ tasks = <<>> /\ invoked = <<>>
       /\ pc \in {"start", "done"}
       /\ Returned =>
             result = Err(crate_context([type |-> "SuperfluousVersionOption"],
                                        crate_name.name))

\* C7 witness: resolve has returned the error
C7_Witness ==
    /\ BothVersionReqs
    /\ ReturnedErr("SuperfluousVersionOption")

\* no product of the list has a name
NoNamedProduct(bins) == \A j \in DOMAIN bins : bins[j].name = None

\* C8: when the binaries are checked and the manifest's list has no named
\* product, however many unnamed ones it has, resolve returns
\* UnspecifiedBinaries; with a named product it does not.
C8_NoNamedBinariesIsError ==
    [][pc = "check_binaries" =>
          IF NoNamedProduct(Unwrap(manifest).bin)
          THEN /\ pc' = "done"
               /\ result' = Err(crate_context([type |-> "UnspecifiedBinaries"],
                                              crate_name.name))
          ELSE /\ pc' = "get_targets"
               /\ result' = NoResult]_vars

\* C8 witness: the manifest has two products, both unnamed
C8_Witness ==
    /\ ReturnedErr("UnspecifiedBinaries")
    /\ Len(Unwrap(manifest).bin) = 2
    /\ binaries = <<>>

\* C9: when the version string of the resolved package is parsed (the
\* caller gave a current version) and does not parse, resolve returns
\* VersionParse with that string and the diagnostic of the parser.
C9_VersionParseErrorIsFatal ==
    /\ Returned
    /\ IsSome(package)
    /\ IsSome(curr_version)
    /\ ~Version_parse(Unwrap(package).version).ok
    => /\ result.kind = "Err"
       /\ result.err.error.type = "VersionParse"
       /\ result.err.error.v = Unwrap(package).version
       /\ result.err.error.err \in
             {"UnexpectedEnd", "UnexpectedChar", "LeadingZero",
              "UnexpectedCharAfter"}
       /\ handles = <<>>

\* C9 witness: the manifest says "1.2"
C9_Witness ==
    /\ ReturnedErr("VersionParse")
    /\ result.err.error.v = <<"1", ".", "2">>
    /\ result.err.error.err = "UnexpectedEnd"

\* C10: the bin files of a Fetch have pairwise distinct source paths, and
\* there is one bin file per named product of the manifest, in their order.
C10_DistinctSources ==
    ReturnedOk("Fetch") =>
       LET bin_files == result.value.bin_files
           named == retain_named(Unwrap(manifest).bin)
       IN /\ \A a, b \in DOMAIN bin_files :
                a # b => bin_files[a].source # bin_files[b].source
          /\ Len(bin_files) =
                Cardinality({j \in DOMAIN Unwrap(manifest).bin :
                                Unwrap(manifest).bin[j].name # None})
          /\ \A j \in DOMAIN bin_files :
                bin_files[j].base_name = Unwrap(named[j].name)

\* C10 witness: a Fetch of two binaries
C10_Witness ==
    /\ ReturnedOk("Fetch")
    /\ Len(result.value.bin_files) = 2

\* C11: a Fetch is returned only with every expected file verified: its
\* bin files are the complete list, one per binary, never a part of it, and
\* the source of each lies in the directory of the committed backend, which
\* is the directory unpacked last, and exists there.
C11_CommittedOnlyWhenVerified ==
    ReturnedOk("Fetch") =>
       LET bin_files == result.value.bin_files IN
       /\ Len(bin_files) = Len(binaries)
       /\ unpacked # None
       /\ Unwrap(unpacked).dir = bin_path_of(result.value.fetcher)
       /\ Unwrap(bin_path) = Unwrap(unpacked).dir
       /\ \A j \in DOMAIN bin_files :
             /\ bin_files[j].source.dir = Unwrap(unpacked).dir
             /\ bin_files[j].source.file \in Unwrap(unpacked).files

\* C11 witness: the first backend unpacked one of two binaries only and was
\* given up, the second one has both and is fetched
C11_Witness ==
    /\ ReturnedOk("Fetch")
    /\ Len(result.value.bin_files) = 2
    /\ \E e \in Range(log) :
          /\ e.fetcher = 1
          /\ e.err.type = "BinFileNotFound"
          /\ e.err.path.file = "b"

Fields == {"pkg_url", "bin_dir"}

\* the metadata section of the package
PackageMeta == Unwrap(Unwrap(Unwrap(package).metadata).binstall)

\* the overrides registered for exactly this target
OverridesOf(target) ==
    {e \in Range(PackageMeta.overrides) : e.target = target}

\* C12: the effective metadata of each fetcher is, field by field, the
\* command-line value if present, else the value of the override registered
\* for exactly the fetcher's target if present, else the base value; the
\* override of another target has no part in it.
C12_ThreeWayMerge ==
    pc = "join" =>
       \A k \in DOMAIN handles :
          LET d == handles[k].data IN
          /\ d.meta.overrides = <<>>
          /\ \A f \in Fields :
                d.meta[f] =
                   IF opts.cli_overrides[f] # None THEN opts.cli_overrides[f]
                   ELSE IF \E e \in OverridesOf(d.target) : e[f] # None
                   THEN (CHOOSE e \in OverridesOf(d.target) : e[f] # None)[f]
                   ELSE PackageMeta[f]

\* C12 witness: for t1 the command line sets bin_dir over the override and
\* the base, the override of t1 sets pkg_url over the base; t2, whose own
\* override sets nothing, keeps the base pkg_url
C12_Witness ==
    /\ pc = "join"
    /\ desired_targets = <<"t1", "t2">>
    /\ PackageMeta.pkg_url = Some("url_base")
    /\ PackageMeta.bin_dir = Some("dir_base")
    /\ \E e \in OverridesOf("t1") :
          e.pkg_url = Some("url_t1") /\ e.bin_dir = Some("dir_t1")
    /\ \E e \in OverridesOf("t2") : e.pkg_url = None /\ e.bin_dir = None
    /\ opts.cli_overrides.bin_dir = Some("dir_cli")
    /\ opts.cli_overrides.pkg_url = None
    /\ handles[1].data.meta.pkg_url = Some("url_t1")
    /\ handles[1].data.meta.bin_dir = Some("dir_cli")
    /\ handles[3].data.meta.pkg_url = Some("url_base")

\* C15: the matrix is the cross product of the desired targets with the two
\* backends, target-major and backend-minor: GhCrateMeta then QuickInstall
\* for the first target, then both for the second, and so on; one probe
\* task is spawned per pair, 2 x |targets| of them, and the two fetchers of
\* one target carry the same Data, so the same effective metadata.
C15_MatrixIsCrossProduct ==
    pc = "join" =>
       /\ Len(handles) = 2 * Len(desired_targets)
       /\ DOMAIN tasks = DOMAIN handles
       /\ \A k \in DOMAIN tasks : tasks[k] = "running"
       /\ \A t \in DOMAIN desired_targets :
             /\ handles[2 * t - 1].kind = "GhCrateMeta"
             /\ handles[2 * t].kind = "QuickInstall"
             /\ handles[2 * t - 1].data.target = desired_targets[t]
             /\ handles[2 * t].data.target = desired_targets[t]
             /\ handles[2 * t - 1].data = handles[2 * t].data

\* C15 witness: four fetchers for two targets
C15_Witness ==
    /\ pc = "join"
    /\ desired_targets = <<"t1", "t2">>
    /\ Len(tasks) = 4
    /\ handles[2].kind = "QuickInstall" /\ handles[2].data.target = "t1"
    /\ handles[3].kind = "GhCrateMeta" /\ handles[3].data.target = "t2"

Resolutions == {"Fetch", "InstallFromSource", "AlreadyUpToDate"}

\* no element occurs twice in s
NoRepeat(s) == \A a, b \in DOMAIN s : a # b => s[a] # s[b]

\* C13: when every launched probe and every invoked pipeline completes, a
\* scan that has begun ends: resolve returns.  What it returns is one
\* Resolution variant or one error, which does not change afterwards, and
\* on the way each probe result is awaited at most once and each pipeline
\* invoked at most once.
C13_ScanTerminates ==
    /\ (pc = "join") ~> (pc = "done")
    /\ [](pc = "done" =>
            \/ result.kind = "Ok" /\ result.value.type \in Resolutions
            \/ result.kind = "Err" /\ result.err.type = "CrateContext")
    /\ [](pc # "done" => result = NoResult)
    /\ [](NoRepeat(joined) /\ NoRepeat(invoked))
    /\ [][pc = "done" => FALSE]_vars

\* C13 witness: the scan went through both pairs, ran both pipelines, and
\* resolve returned
C13_Witness ==
    /\ pc = "done"
    /\ joined = <<1, 2>>
    /\ invoked = <<1, 2>>
    /\ ReturnedOk("InstallFromSource")

\* C14: every error resolve returns is a crate_context around the error of
\* resolve_inner, naming the crate that was asked for; print has run exactly
\* when resolve returned a resolution, never for an error and never before
\* the return.
C14_ErrorsCarryCrateName ==
    /\ Returned /\ result.kind = "Err" =>
          /\ result.err.type = "CrateContext"
          /\ result.err.crate = crate_name.name
          /\ result.err.error.type # "CrateContext"
          /\ ~printed
    /\ printed <=> (Returned /\ result.kind = "Ok")

\* C14 witness: an error from the middle of resolve_inner, wrapped
C14_Witness ==
    /\ ReturnedErr("VersionParse")
    /\ result.err.crate = "foo"
    /\ ~printed

Scanning == pc \in {"join", "fetch_and_extract"}

Spawned(k) == tasks[k] \in {"running", "true", "false", "error"}

\* C16: when the scan awaits its first handle, and as long as it goes on,
\* there is one spawned probe task per fetcher of the matrix, at the
\* fetcher's place in the matrix; nothing has been awaited before they all
\* exist; and a probe that still runs can complete whatever the scan is
\* doing, whether the scan has reached its pair or not.
C16_ProbesSpawnedUpFront ==
    /\ Scanning =>
          /\ DOMAIN tasks = DOMAIN handles
          /\ \A k \in DOMAIN tasks :
                /\ Spawned(k)
                /\ tasks[k] = "running" => ENABLED ProbeFinish(k)
    /\ ~Scanning /\ pc \notin {"done", "aborted"} =>
          tasks = <<>> /\ joined = <<>>

\* C16 witness: the scan still waits for the probe of pair 1 and the probe
\* of pair 2 has finished already
C16_Witness ==
    /\ pc = "join"
    /\ i = 1
    /\ joined = <<>>
    /\ Len(tasks) >= 2
    /\ tasks[1] = "running"
    /\ tasks[2] \in {"true", "false", "error"}

\* the scan logged a probe error for pair p
ProbeErrorLogged(p) ==
    \E e \in Range(log) : e.fetcher = p /\ e.what = "checking"

\* C17: the pipeline is invoked only for a pair whose own probe returned
\* Ok(true).  A pair whose probe returned Ok(false) or an error is passed
\* over: no pipeline, no download directory, no download error of its own;
\* the probe error is logged and is never what resolve returns, and a Fetch
\* never names such a pair.
C17_PipelineOnlyAfterTrueProbe ==
    /\ \A p \in Range(invoked) : p \in Range(joined) /\ tasks[p] = "true"
    /\ \A p \in Range(joined) :
          tasks[p] \in {"false", "error"} =>
             /\ p \notin Range(invoked)
             /\ ~PipelineFailed(p)
             /\ bin_path # Some(bin_path_of(handles[p]))
             /\ ProbeErrorLogged(p) <=> tasks[p] = "error"
    /\ "download" \in net <=> invoked # <<>>
    /\ Returned /\ result.kind = "Err" => result.err.error.type # "Probe"
    /\ ReturnedOk("Fetch") =>
          \A k \in DOMAIN handles :
             handles[k] = result.value.fetcher => tasks[k] = "true"

\* C17 witness: the probe of pair 1 failed, the scan went past it without
\* a download, and pair 2 was fetched
C17_Witness ==
    /\ ReturnedOk("Fetch")
    /\ tasks[1] = "error"
    /\ ProbeErrorLogged(1)
    /\ joined = <<1, 2>>
    /\ invoked = <<2>>

\* the pipelines that were started and have neither failed nor been
\* committed by a return nor been dropped with the resolve future
InProgress ==
    {p \in Range(invoked) :
        ~PipelineFailed(p) /\ pc \notin {"done", "aborted"}}

\* C18: at most one download-extract-verify pipeline is in progress at any
\* time: the one of the pair the scan stands at, whose temporary directory
\* is the one the scan computed for that pair.  Only a step of that
\* pipeline unpacks anything, and it unpacks into that directory; a probe
\* that completes touches neither the directory nor what is unpacked.
C18_OnePipelineAtATime ==
    /\ [](/\ Cardinality(InProgress) <= 1
          /\ \A p \in InProgress :
                /\ PipelineRunning(p)
                /\ bin_path = Some(bin_path_of(handles[p])))
    /\ [][unpacked' # unpacked =>
            /\ pc = "fetch_and_extract"
            /\ InProgress = {i}
            /\ Unwrap(unpacked').dir = bin_path_of(handles[i])]_vars
    /\ [][(\E k \in DOMAIN tasks : ProbeFinish(k)) =>
            UNCHANGED <<bin_path, unpacked, invoked>>]_vars

\* C18 witness: the pipeline of pair 2 runs after the one of pair 1 has
\* unpacked its archive and failed; the probe of pair 2 had finished while
\* the pipeline of pair 1 was the one in progress
C18_Witness ==
    /\ InProgress = {2}
    /\ invoked = <<1, 2>>
    /\ PipelineFailed(1)
    /\ unpacked # None
    /\ Unwrap(unpacked).dir = bin_path_of(handles[1])
    /\ bin_path = Some(bin_path_of(handles[2]))

\* the bin-dir template in force for pair k
BinDirOf(k) ==
    LET m == handles[k].data.meta IN
    IF m.bin_dir # None THEN Unwrap(m.bin_dir) ELSE "{ bin }"

\* the source path binary j renders to for pair k
SourceOf(k, j) ==
    [dir |-> bin_path_of(handles[k]),
     file |-> render(BinDirOf(k), Unwrap(binaries[j].name))]

\* the binaries of pair k that render to path
RenderedTo(k, path) == {j \in DOMAIN binaries : SourceOf(k, j) = path}

\* two binaries of pair k render to the same source path
HasDuplicate(k) ==
    \E a, b \in DOMAIN binaries : a # b /\ SourceOf(k, a) = SourceOf(k, b)

\* the errors the scan logged for the pipeline of pair k
PipelineErrorsOf(k) ==
    {e.err : e \in {l \in Range(log) : l.fetcher = k /\ l.what = "downloading"}}

\* C19: when two binaries of a pair render to the same source path, the
\* pipeline of that pair, once its archive is downloaded and unpacked, fails
\* with DuplicateSourceFilePath, whose path is one that more than one binary
\* renders to; it does so whether or not the files exist, so with a
\* duplicate the pipeline never fails with a missing file and never yields
\* bin files.  The error is raised only by a step that has unpacked the
\* archive of that pair; before that only the download can fail.
C19_DuplicateSourceDetected ==
    /\ [](\A k \in DOMAIN handles :
           /\ \A e \in PipelineErrorsOf(k) :
                 /\ e.type \in PipelineErrors
                 /\ e.type = "DuplicateSourceFilePath" =>
                       Cardinality(RenderedTo(k, e.path)) >= 2
                 /\ HasDuplicate(k) => e.type # "BinFileNotFound"
           /\ HasDuplicate(k) /\ ReturnedOk("Fetch") =>
                 result.value.fetcher # handles[k])
    /\ [][\A k \in {i} :
            pc = "fetch_and_extract" /\ pc' # pc /\ HasDuplicate(k) =>
               \/ pc' = "aborted"
               \/ /\ unpacked' = unpacked
                  /\ PipelineErrorsOf(k)' = {[type |-> "Io"]}
               \/ /\ unpacked' # None
                  /\ Unwrap(unpacked').dir = bin_path_of(handles[k])
                  /\ \E e \in PipelineErrorsOf(k)' :
                        e.type = "DuplicateSourceFilePath"]_vars
    /\ [][\A k \in {i} :
            pc = "fetch_and_extract" /\ unpacked' = unpacked =>
               \A e \in PipelineErrorsOf(k)' : e.type = "Io"]_vars

\* C19 witness: two binaries render to the same path, the archive was
\* unpacked and holds no file at all, and the duplicate is what is reported
C19_Witness ==
    /\ pc = "join"
    /\ i = 2
    /\ Len(binaries) = 2
    /\ binaries[1].name # binaries[2].name
    /\ HasDuplicate(1)
    /\ unpacked # None
    /\ Unwrap(unpacked).dir = bin_path_of(handles[1])
    /\ Unwrap(unpacked).files = {}
    /\ PipelineErrorsOf(1) =
          {[type |-> "DuplicateSourceFilePath", path |-> SourceOf(1, 2)]}

\* the place of a program position in the order of resolve_inner
StageOf(p) ==
    CASE p = "start" -> 1
      [] p = "load_manifest" -> 2
      [] p = "fetch_crate" -> 3
      [] p = "check_package" -> 4
      [] p = "check_version" -> 5
      [] p = "check_binaries" -> 6
      [] p = "get_targets" -> 7
      [] p \in {"join", "fetch_and_extract"} -> 8
      [] p \in {"done", "aborted"} -> 9

ManifestErrors == {"CargoManifestPath", "CargoManifest", "CratesIoApi"}

\* nothing of the probes or of the scan has happened
NoRace ==
    /\ desired_targets = <<>> /\ handles = <<>> /\ tasks = <<>>
    /\ joined = <<>> /\ invoked = <<>> /\ log = <<>>
    /\ "probe" \notin net /\ "download" \notin net

\* the manifest's package carries a version that does not parse
VersionUnparsable ==
    IsSome(curr_version) /\ ~Version_parse(Unwrap(package).version).ok

\* C20: the stages before the race come in one order: conflicting version
\* specifiers, manifest load, missing package, version comparison (parse,
\* then AlreadyUpToDate), no binaries, and only then the probes.  The first
\* stage that fires decides what resolve returns, whatever the later stages
\* would have found, and nothing of a later stage has been done.
C20_PreRaceStagesInOrder ==
    /\ [][StageOf(pc') > StageOf(pc) \/ StageOf(pc) = 8]_vars
    /\ [](Returned =>
          IF BothVersionReqs
          THEN /\ ReturnedErr("SuperfluousVersionOption")
               /\ version_req = None /\ manifest = None /\ net = {}
               /\ package = None /\ binaries = <<>> /\ NoRace
          ELSE IF manifest = None
          THEN /\ result.kind = "Err"
               /\ result.err.error.type \in ManifestErrors
               /\ version_req # None
               /\ package = None /\ binaries = <<>> /\ NoRace
          ELSE IF Unwrap(manifest).package = None
          THEN /\ ReturnedErr("CargoTomlMissingPackage")
               /\ package = None /\ binaries = <<>> /\ NoRace
          ELSE IF VersionUnparsable
          THEN /\ ReturnedErr("VersionParse")
               /\ package # None /\ binaries = <<>> /\ NoRace
          ELSE IF SameVersion
          THEN /\ ReturnedOk("AlreadyUpToDate")
               /\ binaries = <<>> /\ NoRace
          ELSE IF NoNamedProduct(Unwrap(manifest).bin)
          THEN /\ ReturnedErr("UnspecifiedBinaries")
               /\ NoRace
          ELSE /\ result.kind = "Ok"
               /\ result.value.type \in {"Fetch", "InstallFromSource"}
               /\ binaries # <<>>)

\* C20 witness: the manifest has a version that does not parse and no named
\* binary: the version stage comes first and decides
C20_Witness ==
    /\ ReturnedErr("VersionParse")
    /\ manifest # None
    /\ NoNamedProduct(Unwrap(manifest).bin)
    /\ "registry" \in net
    /\ NoRace

====
